---- MODULE Spec2Model ----
(***************************************************************************)
(* Model of the Credly badge tooling of SmartStudentHub:                   *)
(*   src/credly_badge_id_extractor.py  extract_credly_id_from_url,         *)
(*                                     resolve_credly_short_url,           *)
(*                                     process_certificate_pdf_complete    *)
(*   src/Credliy.py                    CredlyBadgeVerification.verify      *)
(* One behaviour is one call of one of the four functions.  The network,   *)
(* the file system and the PDF library are the environment: what they      *)
(* answer is chosen with \E at the step that asks them.                    *)
(***************************************************************************)
EXTENDS Integers, Sequences, FiniteSets, TLC

\* BEGIN string literals (a Python str is the sequence of its characters)
\* LitBadges = "/badges/"
LitBadges ==
  <<"/","b","a","d","g","e","s","/">>
\* LitPrint = "/print"
LitPrint ==
  <<"/","p","r","i","n","t">>
\* LitCredlyCom = "credly.com"
LitCredlyCom ==
  <<"c","r","e","d","l","y",".","c","o","m">>
\* LitGo = "/go/"
LitGo ==
  <<"/","g","o","/">>
\* LitHttp = "http"
LitHttp ==
  <<"h","t","t","p">>
\* LitColonSlashSlash = "://"
LitColonSlashSlash ==
  <<":","/","/">>
\* LitWwwDot = "www."
LitWwwDot ==
  <<"w","w","w",".">>
\* LitCredlyComGo = "credly.com/go/"
LitCredlyComGo ==
  <<"c","r","e","d","l","y",".","c","o","m","/","g","o","/">>
\* LitCredlyComBadges = "credly.com/badges/"
LitCredlyComBadges ==
  <<"c","r","e","d","l","y",".","c","o","m","/","b","a","d","g","e","s","/">>
\* LitAccepted = "accepted"
LitAccepted ==
  <<"a","c","c","e","p","t","e","d">>
\* GuidLower = "f5deaadd-8abb-45d9-abfa-99d600ce9245"
GuidLower ==
  <<"f","5","d","e","a","a","d","d","-","8","a","b","b","-","4","5","d","9","-","a","b","f","a","-","9","9","d","6","0","0","c","e","9","2","4","5">>
\* UrlLong = "https://www.credly.com/badges/f5deaadd-8abb-45d9-abfa-99d600ce9245/print"
UrlLong ==
  <<"h","t","t","p","s",":","/","/","w","w","w",".","c","r","e","d","l","y",".","c","o","m","/","b","a","d","g","e","s","/","f","5","d","e","a","a","d","d","-","8","a","b","b","-","4","5","d","9","-","a","b","f","a","-","9","9","d","6","0","0","c","e","9","2","4","5","/","p","r","i","n","t">>
\* UrlLongUpper = "HTTPS://WWW.CREDLY.COM/BADGES/F5DEAADD-8ABB-45D9-ABFA-99D600CE9245/PRINT"
UrlLongUpper ==
  <<"H","T","T","P","S",":","/","/","W","W","W",".","C","R","E","D","L","Y",".","C","O","M","/","B","A","D","G","E","S","/","F","5","D","E","A","A","D","D","-","8","A","B","B","-","4","5","D","9","-","A","B","F","A","-","9","9","D","6","0","0","C","E","9","2","4","5","/","P","R","I","N","T">>
\* UrlLongMixed = "http://credly.com/badges/0a1B2c3D-4e5F-6a7B-8c9D-0e1F2a3B4c5D/print"
UrlLongMixed ==
  <<"h","t","t","p",":","/","/","c","r","e","d","l","y",".","c","o","m","/","b","a","d","g","e","s","/","0","a","1","B","2","c","3","D","-","4","e","5","F","-","6","a","7","B","-","8","c","9","D","-","0","e","1","F","2","a","3","B","4","c","5","D","/","p","r","i","n","t">>
\* UrlLongShortGuid = "https://www.credly.com/badges/f5deaadd-8abb-45d9-abfa-99d600ce924/print"
UrlLongShortGuid ==
  <<"h","t","t","p","s",":","/","/","w","w","w",".","c","r","e","d","l","y",".","c","o","m","/","b","a","d","g","e","s","/","f","5","d","e","a","a","d","d","-","8","a","b","b","-","4","5","d","9","-","a","b","f","a","-","9","9","d","6","0","0","c","e","9","2","4","/","p","r","i","n","t">>
\* UrlLongNonHex = "https://www.credly.com/badges/g5deaadd-8abb-45d9-abfa-99d600ce9245/print"
UrlLongNonHex ==
  <<"h","t","t","p","s",":","/","/","w","w","w",".","c","r","e","d","l","y",".","c","o","m","/","b","a","d","g","e","s","/","g","5","d","e","a","a","d","d","-","8","a","b","b","-","4","5","d","9","-","a","b","f","a","-","9","9","d","6","0","0","c","e","9","2","4","5","/","p","r","i","n","t">>
\* UrlLongNoPrint = "https://www.credly.com/badges/f5deaadd-8abb-45d9-abfa-99d600ce9245/public_url"
UrlLongNoPrint ==
  <<"h","t","t","p","s",":","/","/","w","w","w",".","c","r","e","d","l","y",".","c","o","m","/","b","a","d","g","e","s","/","f","5","d","e","a","a","d","d","-","8","a","b","b","-","4","5","d","9","-","a","b","f","a","-","9","9","d","6","0","0","c","e","9","2","4","5","/","p","u","b","l","i","c","_","u","r","l">>
\* UrlLongTwo = "https://www.credly.com/badges/0a1B2c3D-4e5F-6a7B-8c9D-0e1F2a3B4c5D/print?next=/badges/f5deaadd-8abb-45d9-abfa-99d600ce9245/print"
UrlLongTwo ==
  <<"h","t","t","p","s",":","/","/","w","w","w",".","c","r","e","d","l","y",".","c","o","m","/","b","a","d","g","e","s","/","0","a","1","B","2","c","3","D","-","4","e","5","F","-","6","a","7","B","-","8","c","9","D","-","0","e","1","F","2","a","3","B","4","c","5","D","/","p","r","i","n","t","?","n","e","x","t","=","/","b","a","d","g","e","s","/","f","5","d","e","a","a","d","d","-","8","a","b","b","-","4","5","d","9","-","a","b","f","a","-","9","9","d","6","0","0","c","e","9","2","4","5","/","p","r","i","n","t">>
\* UrlLongWithGo = "https://www.credly.com/badges/f5deaadd-8abb-45d9-abfa-99d600ce9245/print?ref=/go/"
UrlLongWithGo ==
  <<"h","t","t","p","s",":","/","/","w","w","w",".","c","r","e","d","l","y",".","c","o","m","/","b","a","d","g","e","s","/","f","5","d","e","a","a","d","d","-","8","a","b","b","-","4","5","d","9","-","a","b","f","a","-","9","9","d","6","0","0","c","e","9","2","4","5","/","p","r","i","n","t","?","r","e","f","=","/","g","o","/">>
\* UrlShort = "https://www.credly.com/go/ab12cd"
UrlShort ==
  <<"h","t","t","p","s",":","/","/","w","w","w",".","c","r","e","d","l","y",".","c","o","m","/","g","o","/","a","b","1","2","c","d">>
\* UrlShortUpper = "https://www.Credly.com/go/AB12cd"
UrlShortUpper ==
  <<"h","t","t","p","s",":","/","/","w","w","w",".","C","r","e","d","l","y",".","c","o","m","/","g","o","/","A","B","1","2","c","d">>
\* UrlProfile = "https://www.credly.com/users/sam"
UrlProfile ==
  <<"h","t","t","p","s",":","/","/","w","w","w",".","c","r","e","d","l","y",".","c","o","m","/","u","s","e","r","s","/","s","a","m">>
\* UrlForeignQuery = "https://evil.example/go/x?u=credly.com"
UrlForeignQuery ==
  <<"h","t","t","p","s",":","/","/","e","v","i","l",".","e","x","a","m","p","l","e","/","g","o","/","x","?","u","=","c","r","e","d","l","y",".","c","o","m">>
\* UrlForeignPath = "https://evil.example/credly.com/go/ab12cd"
UrlForeignPath ==
  <<"h","t","t","p","s",":","/","/","e","v","i","l",".","e","x","a","m","p","l","e","/","c","r","e","d","l","y",".","c","o","m","/","g","o","/","a","b","1","2","c","d">>
\* UrlForeignHost = "https://notcredly.com/go/ab12cd"
UrlForeignHost ==
  <<"h","t","t","p","s",":","/","/","n","o","t","c","r","e","d","l","y",".","c","o","m","/","g","o","/","a","b","1","2","c","d">>
\* UrlForeign = "https://example.org/go/ab12cd"
UrlForeign ==
  <<"h","t","t","p","s",":","/","/","e","x","a","m","p","l","e",".","o","r","g","/","g","o","/","a","b","1","2","c","d">>
\* UrlSubdomain = "https://info.credly.com/go/ab12cd"
UrlSubdomain ==
  <<"h","t","t","p","s",":","/","/","i","n","f","o",".","c","r","e","d","l","y",".","c","o","m","/","g","o","/","a","b","1","2","c","d">>
\* UrlForeignLong = "https://example.org/badges/f5deaadd-8abb-45d9-abfa-99d600ce9245/print"
UrlForeignLong ==
  <<"h","t","t","p","s",":","/","/","e","x","a","m","p","l","e",".","o","r","g","/","b","a","d","g","e","s","/","f","5","d","e","a","a","d","d","-","8","a","b","b","-","4","5","d","9","-","a","b","f","a","-","9","9","d","6","0","0","c","e","9","2","4","5","/","p","r","i","n","t">>
\* EmptyStr = ""
EmptyStr ==
  << >>
\* StExpired = "expired"
StExpired ==
  <<"e","x","p","i","r","e","d">>
\* StAcceptedCaps = "Accepted"
StAcceptedCaps ==
  <<"A","c","c","e","p","t","e","d">>
\* ExpPast = "2020-01-01T00:00:00+00:00"
ExpPast ==
  <<"2","0","2","0","-","0","1","-","0","1","T","0","0",":","0","0",":","0","0","+","0","0",":","0","0">>
\* ExpFuture = "2030-01-01T00:00:00+00:00"
ExpFuture ==
  <<"2","0","3","0","-","0","1","-","0","1","T","0","0",":","0","0",":","0","0","+","0","0",":","0","0">>
\* ExpFutureOffset = "2030-01-01T02:00:00+05:30"
ExpFutureOffset ==
  <<"2","0","3","0","-","0","1","-","0","1","T","0","2",":","0","0",":","0","0","+","0","5",":","3","0">>
\* ExpFutureNegOffset = "2029-12-31T20:00:00-08:00"
ExpFutureNegOffset ==
  <<"2","0","2","9","-","1","2","-","3","1","T","2","0",":","0","0",":","0","0","-","0","8",":","0","0">>
\* ExpDateOnly = "2030-01-01"
ExpDateOnly ==
  <<"2","0","3","0","-","0","1","-","0","1">>
\* ExpNaive = "2030-01-01T00:00:00"
ExpNaive ==
  <<"2","0","3","0","-","0","1","-","0","1","T","0","0",":","0","0",":","0","0">>
\* ExpDateOnlyPast = "2020-01-01"
ExpDateOnlyPast ==
  <<"2","0","2","0","-","0","1","-","0","1">>
\* ExpGarbage = "not-a-date"
ExpGarbage ==
  <<"n","o","t","-","a","-","d","a","t","e">>
\* ExpBadDay = "2030-02-30"
ExpBadDay ==
  <<"2","0","3","0","-","0","2","-","3","0">>
\* WCertificate = "Certificate"
WCertificate ==
  <<"C","e","r","t","i","f","i","c","a","t","e">>
\* WVerify = "Verify:"
WVerify ==
  <<"V","e","r","i","f","y",":">>
\* WAt = "at"
WAt ==
  <<"a","t">>
\* WShortLong = "https://www.credly.com/go/abcdefghijklm"
WShortLong ==
  <<"h","t","t","p","s",":","/","/","w","w","w",".","c","r","e","d","l","y",".","c","o","m","/","g","o","/","a","b","c","d","e","f","g","h","i","j","k","l","m">>
\* WShortUnderscore = "https://www.credly.com/go/ab12cd_x"
WShortUnderscore ==
  <<"h","t","t","p","s",":","/","/","w","w","w",".","c","r","e","d","l","y",".","c","o","m","/","g","o","/","a","b","1","2","c","d","_","x">>
\* WShortTiny = "https://www.credly.com/go/abc"
WShortTiny ==
  <<"h","t","t","p","s",":","/","/","w","w","w",".","c","r","e","d","l","y",".","c","o","m","/","g","o","/","a","b","c">>
\* WSee = "see"
WSee ==
  <<"s","e","e">>
\* PathCert = "cert.pdf"
PathCert ==
  <<"c","e","r","t",".","p","d","f">>
\* ErrFileNotFound = "Error: File Not Found"
ErrFileNotFound ==
  <<"E","r","r","o","r",":"," ","F","i","l","e"," ","N","o","t"," ","F","o","u","n","d">>
\* ErrDuringProcessing = "Error during processing: "
ErrDuringProcessing ==
  <<"E","r","r","o","r"," ","d","u","r","i","n","g"," ","p","r","o","c","e","s","s","i","n","g",":"," ">>
\* MsgUnboundLocal = "cannot access local variable 'full_text' where it is not associated with a value"
MsgUnboundLocal ==
  <<"c","a","n","n","o","t"," ","a","c","c","e","s","s"," ","l","o","c","a","l"," ","v","a","r","i","a","b","l","e"," ","'","f","u","l","l","_","t","e","x","t","'"," ","w","h","e","r","e"," ","i","t"," ","i","s"," ","n","o","t"," ","a","s","s","o","c","i","a","t","e","d"," ","w","i","t","h"," ","a"," ","v","a","l","u","e">>
\* MsgNotPdf = "No /Root object! - Is this really a PDF?"
MsgNotPdf ==
  <<"N","o"," ","/","R","o","o","t"," ","o","b","j","e","c","t","!"," ","-"," ","I","s"," ","t","h","i","s"," ","r","e","a","l","l","y"," ","a"," ","P","D","F","?">>
\* MsgPage = "unexpected EOF"
MsgPage ==
  <<"u","n","e","x","p","e","c","t","e","d"," ","E","O","F">>
\* WShortDot = "https://www.credly.com/go/ab12cd."
WShortDot ==
  <<"h","t","t","p","s",":","/","/","w","w","w",".","c","r","e","d","l","y",".","c","o","m","/","g","o","/","a","b","1","2","c","d",".">>
\* END string literals


(***************************************************************************)
(* Python values.  None is a one-element tuple whose element is not a      *)
(* character, so it differs from every str, the empty str included.        *)
(***************************************************************************)
None ==
  <<"None">>

NoException ==
  "none"

UpperChars ==
  <<"A","B","C","D","E","F","G","H","I","J","K","L","M",
    "N","O","P","Q","R","S","T","U","V","W","X","Y","Z">>

LowerChars ==
  <<"a","b","c","d","e","f","g","h","i","j","k","l","m",
    "n","o","p","q","r","s","t","u","v","w","x","y","z">>

DigitChars ==
  <<"0","1","2","3","4","5","6","7","8","9">>

Range(f) ==
  {f[i] : i \in DOMAIN f}

\* str.lower() on one character
LowerChar(c) ==
  IF \E i \in DOMAIN UpperChars : UpperChars[i] = c
  THEN LowerChars[CHOOSE i \in DOMAIN UpperChars : UpperChars[i] = c]
  ELSE c

\* str.lower()
lower(s) ==
  [i \in 1..Len(s) |-> LowerChar(s[i])]

IsDigit(c) ==
  c \in Range(DigitChars)

\* the class [a-zA-Z]
IsAlpha(c) ==
  c \in Range(UpperChars) \cup Range(LowerChars)

\* the class [a-zA-Z0-9]
IsAlnum(c) ==
  IsAlpha(c) \/ IsDigit(c)

\* the class [0-9a-fA-F]
IsHex(c) ==
  IsDigit(c) \/ LowerChar(c) \in {"a","b","c","d","e","f"}

\* the class [a-zA-Z0-9-]
IsAlnumHyphen(c) ==
  IsAlnum(c) \/ c = "-"

\* \w of the re module, on the characters of the model
IsWordChar(c) ==
  IsAlnum(c) \/ c = "_"

\* the characters str.strip() removes
IsSpace(c) ==
  c \in {" ", "\n", "\t"}

DigitVal(c) ==
  (CHOOSE i \in DOMAIN DigitChars : DigitChars[i] = c) - 1

\* needle in haystack, for two str
Contains(haystack, needle) ==
  \E i \in 1..(Len(haystack) - Len(needle) + 1) :
     \A j \in 1..Len(needle) : haystack[i + j - 1] = needle[j]

\* a literal of a pattern compiled with re.IGNORECASE matches s at index i
LitAt(s, i, lit) ==
  /\ i >= 1
  /\ i + Len(lit) - 1 <= Len(s)
  /\ \A j \in 1..Len(lit) : LowerChar(s[i + j - 1]) = LowerChar(lit[j])

Min(S) ==
  CHOOSE x \in S : \A y \in S : x <= y

Max(S) ==
  CHOOSE x \in S : \A y \in S : x >= y

(***************************************************************************)
(* extract_credly_id_from_url                                              *)
(***************************************************************************)
\* guid_pattern with {11} for the last group
GuidGroupsShortLast ==
  <<8, 4, 4, 4, 11>>

\* the repetition counts {8}-{4}-{4}-{4}-{12} of guid_pattern
GuidGroups ==
  <<8, 4, 4, 4, 12>>

\* the groups of hexadecimal digits joined by "-" match s from index i:
\* the index after the match, 0 when there is none
RECURSIVE HexGroupsAt(_, _, _)
HexGroupsAt(s, i, groups) ==
  LET n == Head(groups) IN
  IF i + n - 1 > Len(s) \/ \E j \in 0..(n - 1) : ~IsHex(s[i + j])
  THEN 0
  ELSE IF Len(groups) = 1
       THEN i + n
       ELSE IF i + n <= Len(s) /\ s[i + n] = "-"
            THEN HexGroupsAt(s, i + n + 1, Tail(groups))
            ELSE 0

\* guid_pattern matches s at index i
GuidPatternAt(s, i) ==
  /\ LitAt(s, i, LitBadges)
  /\ HexGroupsAt(s, i + Len(LitBadges), GuidGroups) # 0
  /\ LitAt(s, HexGroupsAt(s, i + Len(LitBadges), GuidGroups), LitPrint)

\* what a call returns: the value, or the exception that leaves it
Returned(v) ==
  [exc |-> NoException, val |-> v]

Raised(e) ==
  [exc |-> e, val |-> None]

extract_credly_id_from_url(credly_url) ==
  IF credly_url = None
  THEN Raised("TypeError")
  ELSE LET hits == {i \in 1..Len(credly_url) : GuidPatternAt(credly_url, i)} IN
       IF hits # {}
       THEN LET i == Min(hits)
                e == HexGroupsAt(credly_url, i + Len(LitBadges), GuidGroups)
            IN Returned(SubSeq(credly_url, i + Len(LitBadges), e - 1))
       ELSE Returned(None)

(***************************************************************************)
(* State: the function under call (op), its position (pc), and the locals, *)
(* return values and effects of the four functions.                        *)
(***************************************************************************)
VARIABLES
  op,               \* "idle", "extract", "resolve", "process" or "verify"
  pc,               \* position inside the function under call
  raised,           \* the exception that left the function under call
  log,              \* what the call printed, in order
  credly_url,       \* extract_credly_id_from_url: argument
  ret,              \* return value of extract_... / resolve_... (str or None)
  short_url,        \* resolve_credly_short_url: argument
  max_retries,      \* resolve_credly_short_url: argument
  attempt,          \* resolve_credly_short_url: loop variable
  requests_made,    \* number of requests.get calls issued
  sleeps,           \* the arguments of the time.sleep calls, in order
  pdf_path,         \* process_certificate_pdf_complete: argument
  pdf,              \* the opened document: the sequence of its pages
  page_no,          \* index of the page the loop of line 71 is at
  full_text_list,   \* local of process_certificate_pdf_complete
  full_text,        \* local, Unbound until the first page is done
  found_url,        \* local
  long_credly_url,  \* local
  results,          \* return value of process_certificate_pdf_complete
  badge_id,         \* verify: argument
  response,         \* verify: what requests.get answered
  badge_data,       \* verify: local
  now_utc,          \* verify: local
  verified_content  \* return value of verify

extractVars ==
  <<credly_url, ret>>

resolveVars ==
  <<short_url, max_retries, attempt, requests_made, sleeps>>

processVars ==
  <<pdf_path, pdf, page_no, full_text_list, full_text, found_url,
    long_credly_url, results>>

verifyVars ==
  <<badge_id, response, badge_data, now_utc, verified_content>>

vars ==
  <<op, pc, raised, log, credly_url, ret, short_url, max_retries, attempt,
    requests_made, sleeps, pdf_path, pdf, page_no, full_text_list, full_text,
    found_url, long_credly_url, results, badge_id, response, badge_data,
    now_utc, verified_content>>

\* a local that no assignment has reached yet
Unbound ==
  <<"Unbound">>

\* values of verify: JSON values and datetimes carry a type tag t
JNone ==
  [t |-> "None"]

JStr(s) ==
  [t |-> "str", s |-> s]

JNum(n) ==
  [t |-> "num", n |-> n]

JList ==
  [t |-> "list"]

\* a key the mapping does not have
JAbsent ==
  [t |-> "absent"]

JDict(state, expires_at) ==
  [t |-> "dict", state |-> state, expires_at |-> expires_at]

NoResponse ==
  [kind |-> "none"]

NoResults ==
  [pdf_text |-> None, credly_id |-> None, final_long_url |-> None,
   found_url_in_pdf |-> None]

Init ==
  /\ op = "idle"
  /\ pc = "idle"
  /\ raised = NoException
  /\ log = << >>
  /\ credly_url = None
  /\ ret = None
  /\ short_url = None
  /\ max_retries = 0
  /\ attempt = 0
  /\ requests_made = 0
  /\ sleeps = << >>
  /\ pdf_path = None
  /\ pdf = << >>
  /\ page_no = 0
  /\ full_text_list = << >>
  /\ full_text = Unbound
  /\ found_url = None
  /\ long_credly_url = None
  /\ results = NoResults
  /\ badge_id = None
  /\ response = NoResponse
  /\ badge_data = JNone
  /\ now_utc = JNone
  /\ verified_content = JNone

(***************************************************************************)
(* A call of extract_credly_id_from_url from outside the pipeline.         *)
(***************************************************************************)
ExtractInputs ==
  {None, EmptyStr, UrlLong, UrlLongUpper, UrlLongMixed, UrlLongShortGuid,
   UrlLongNonHex, UrlLongNoPrint, UrlLongTwo, UrlLongWithGo, UrlShort,
   UrlProfile, UrlForeignLong, GuidLower}

CallExtract ==
  /\ pc = "idle"
  /\ \E u \in ExtractInputs :
       /\ credly_url' = u
       /\ ret' = extract_credly_id_from_url(u).val
       /\ raised' = extract_credly_id_from_url(u).exc
  /\ op' = "extract"
  /\ pc' = "done"
  /\ UNCHANGED <<log, resolveVars, processVars, verifyVars>>

(***************************************************************************)
(* resolve_credly_short_url                                                *)
(***************************************************************************)
\* the default of the parameter max_retries
DefaultMaxRetries ==
  3

\* largest max_retries a direct call passes
MaxRetriesArg ==
  3

RECURSIVE Pow2(_)
Pow2(n) ==
  IF n = 0 THEN 1 ELSE 2 * Pow2(n - 1)

\* Response.raise_for_status(): HTTPError for the 4xx and 5xx statuses
raise_for_status(status) ==
  status >= 400 /\ status < 600

ResolveInputs ==
  {UrlShort, UrlShortUpper, UrlSubdomain, UrlLong, UrlForeign,
   UrlForeignHost, UrlForeignPath, UrlForeignQuery, EmptyStr}

\* the final URLs a redirect chain may end at
FinalUrls ==
  {UrlLong, UrlLongShortGuid, UrlProfile}

\* what requests.get can do at line 33
GetOutcomes ==
  {[kind |-> "Timeout", status |-> 0, url |-> None],
   [kind |-> "ConnectionError", status |-> 0, url |-> None]}
  \cup {[kind |-> "http", status |-> s, url |-> u] :
          s \in {200, 404, 503}, u \in FinalUrls}

CallResolve ==
  /\ pc = "idle"
  /\ \E u \in ResolveInputs, n \in 0..MaxRetriesArg :
       /\ short_url' = u
       /\ max_retries' = n
  /\ op' = "resolve"
  /\ pc' = "r_check"
  /\ UNCHANGED <<raised, log, extractVars, attempt, requests_made, sleeps,
                 processVars, verifyVars>>

\* resolve_credly_short_url returns v: to the environment, or to line 114
ResolveReturn(v) ==
  IF op = "resolve"
  THEN /\ ret' = v
       /\ pc' = "done"
       /\ UNCHANGED long_credly_url
  ELSE /\ long_credly_url' = v
       /\ pc' = "p_return"
       /\ UNCHANGED ret

\* lines 25-29
ResolveCheck ==
  /\ pc = "r_check"
  /\ IF ~Contains(lower(short_url), LitCredlyCom)
     THEN /\ ResolveReturn(None)
          /\ UNCHANGED log
     ELSE /\ pc' = "r_loop"
          /\ log' = Append(log, [msg |-> "Attempting to resolve", url |-> short_url])
          /\ UNCHANGED <<ret, long_credly_url>>
  /\ attempt' = 0
  /\ UNCHANGED <<op, raised, credly_url, short_url, max_retries,
                 requests_made, sleeps, pdf_path, pdf, page_no,
                 full_text_list, full_text, found_url, results, verifyVars>>

\* lines 31-45: one pass through the try statement
ResolveAttempt ==
  /\ pc = "r_loop"
  /\ attempt < max_retries
  /\ requests_made' = requests_made + 1
  /\ \E o \in GetOutcomes :
       IF o.kind = "http" /\ ~raise_for_status(o.status)
       THEN /\ ResolveReturn(o.url)
            /\ UNCHANGED log
       ELSE /\ pc' = "r_backoff"
            /\ log' = Append(log,
                 IF o.kind = "Timeout"
                 THEN [msg |-> "Request timed out", attempt |-> attempt + 1]
                 ELSE [msg |-> "Request failed", attempt |-> attempt + 1,
                       class |-> IF o.kind = "http" THEN "HTTPError" ELSE o.kind])
            /\ UNCHANGED <<ret, long_credly_url>>
  /\ UNCHANGED <<op, raised, credly_url, short_url, max_retries, attempt,
                 sleeps, pdf_path, pdf, page_no, full_text_list, full_text,
                 found_url, results, verifyVars>>

\* lines 47-49 with the guard attempt < max_retries: a wait after the last
\* attempt as well
ResolveBackoffAlways ==
  /\ pc = "r_backoff"
  /\ sleeps' = IF attempt < max_retries
               THEN Append(sleeps, Pow2(attempt))
               ELSE sleeps
  /\ attempt' = attempt + 1
  /\ pc' = "r_loop"
  /\ UNCHANGED <<op, raised, log, extractVars, short_url, max_retries,
                 requests_made, processVars, verifyVars>>

\* lines 47-49, and the step of the for statement
ResolveBackoff ==
  /\ pc = "r_backoff"
  /\ sleeps' = IF attempt < max_retries - 1
               THEN Append(sleeps, Pow2(attempt))
               ELSE sleeps
  /\ attempt' = attempt + 1
  /\ pc' = "r_loop"
  /\ UNCHANGED <<op, raised, log, extractVars, short_url, max_retries,
                 requests_made, processVars, verifyVars>>

\* line 51: range(max_retries) is exhausted
ResolveExhausted ==
  /\ pc = "r_loop"
  /\ attempt >= max_retries
  /\ ResolveReturn(None)
  /\ UNCHANGED <<op, raised, log, credly_url, short_url, max_retries, attempt,
                 requests_made, sleeps, pdf_path, pdf, page_no,
                 full_text_list, full_text, found_url, results, verifyVars>>

(***************************************************************************)
(* process_certificate_pdf_complete: text reconstruction and URL search    *)
(***************************************************************************)
\* the tolerance of line 81
LineTolerance ==
  5

Abs(n) ==
  IF n < 0 THEN -n ELSE n

\* str.strip()
RECURSIVE strip(_)
strip(s) ==
  IF s = << >> THEN s
  ELSE IF IsSpace(Head(s)) THEN strip(Tail(s))
  ELSE IF IsSpace(s[Len(s)]) THEN strip(SubSeq(s, 1, Len(s) - 1))
  ELSE s

\* sep.join(list)
RECURSIVE join(_, _)
join(sep, list) ==
  IF list = << >> THEN << >>
  ELSE IF Len(list) = 1 THEN list[1]
  ELSE list[1] \o sep \o join(sep, Tail(list))

\* the sort key of line 75 puts a before b
KeyBefore(a, b) ==
  a.top < b.top \/ (a.top = b.top /\ a.x0 < b.x0)

\* list.sort is stable: w goes after the words whose key is not larger
RECURSIVE InsertWord(_, _)
InsertWord(w, sorted) ==
  IF sorted = << >> THEN <<w>>
  ELSE IF KeyBefore(w, Head(sorted)) THEN <<w>> \o sorted
  ELSE <<Head(sorted)>> \o InsertWord(w, Tail(sorted))

\* words.sort(key=lambda w: (w['top'], w['x0']))
RECURSIVE SortWords(_)
SortWords(words) ==
  IF words = << >> THEN << >>
  ELSE InsertWord(words[Len(words)], SortWords(SubSeq(words, 1, Len(words) - 1)))

\* lines 77-88; last_top is << >> for None and <<top>> otherwise
RECURSIVE GroupLines(_, _, _, _)
GroupLines(words, current_line, last_top, lines) ==
  IF words = << >>
  THEN IF current_line # << >> THEN Append(lines, strip(current_line)) ELSE lines
  ELSE LET word == Head(words) IN
       IF last_top = << >> \/ Abs(word.top - last_top[1]) > LineTolerance
       THEN GroupLines(Tail(words), word.text, <<word.top>>,
                       IF current_line # << >>
                       THEN Append(lines, strip(current_line))
                       ELSE lines)
       ELSE GroupLines(Tail(words), current_line \o <<" ">> \o word.text,
                       last_top, lines)

\* line 95-97: the annotation sets found_url
Qualifies(annotation) ==
  /\ annotation.Subtype = "/Link"
  /\ annotation.hasA
  /\ annotation.URI # None
  /\ annotation.URI # << >>
  /\ Contains(lower(annotation.URI), LitCredlyCom)

\* lines 94-99: the loop over page.annots, left at the first hit
ScanAnnots(annots) ==
  LET hits == {k \in 1..Len(annots) : Qualifies(annots[k])} IN
  IF hits = {} THEN None ELSE annots[Min(hits)].URI

\* the bounds of [a-zA-Z0-9]{4,12} in short_url_pattern
ShortCodeMin ==
  4

ShortCodeMax ==
  12

\* https?://(?:www\.)?  followed by the literal rest, matched at index i:
\* the indices right after it
UrlHeadEnds(s, i, rest) ==
  LET a1 == IF LitAt(s, i, LitHttp) THEN {i + Len(LitHttp)} ELSE {}
      a2 == a1 \cup {j + 1 : j \in {k \in a1 : LitAt(s, k, <<"s">>)}}
      a3 == {j + Len(LitColonSlashSlash) :
               j \in {k \in a2 : LitAt(s, k, LitColonSlashSlash)}}
      a4 == a3 \cup {j + Len(LitWwwDot) : j \in {k \in a3 : LitAt(s, k, LitWwwDot)}}
  IN {j + Len(rest) : j \in {k \in a4 : LitAt(s, k, rest)}}

\* \b at index p, right after a word character
WordEndAt(s, p) ==
  p > Len(s) \/ ~IsWordChar(s[p])

\* short_url_pattern matched at index i: the indices right after a match
ShortPatternEnds(s, i) ==
  UNION {{j + n : n \in {m \in ShortCodeMin..ShortCodeMax :
                           /\ j + m - 1 <= Len(s)
                           /\ \A k \in j..(j + m - 1) : IsAlnum(s[k])
                           /\ WordEndAt(s, j + m)}} :
           j \in UrlHeadEnds(s, i, LitCredlyComGo)}

\* long_url_pattern matched at index i: the indices right after a match
LongPatternEnds(s, i) ==
  UNION {{x + Len(LitPrint) : x \in {e \in (j + 1)..Len(s) :
                                       /\ \A k \in j..(e - 1) : IsAlnumHyphen(s[k])
                                       /\ LitAt(s, e, LitPrint)}} :
           j \in UrlHeadEnds(s, i, LitCredlyComBadges)}

\* re.search(short_url_pattern, s, re.IGNORECASE): group(0) or None;
\* leftmost start, quantifiers greedy
SearchShort(s) ==
  LET starts == {i \in 1..Len(s) : ShortPatternEnds(s, i) # {}} IN
  IF starts = {} THEN None
  ELSE SubSeq(s, Min(starts), Max(ShortPatternEnds(s, Min(starts))) - 1)

\* re.search(long_url_pattern, s, re.IGNORECASE): group(0) or None
SearchLong(s) ==
  LET starts == {i \in 1..Len(s) : LongPatternEnds(s, i) # {}} IN
  IF starts = {} THEN None
  ELSE SubSeq(s, Min(starts), Max(LongPatternEnds(s, Min(starts))) - 1)

\* the dictionary of lines 61 and 128
ErrorResults(text) ==
  [pdf_text |-> text, credly_id |-> None, final_long_url |-> None,
   found_url_in_pdf |-> None]

(***************************************************************************)
(* The documents pdfplumber may hand over.  A page is its extracted words  *)
(* (in extraction order), its annotations, and whether reading it raises.  *)
(***************************************************************************)
Word(text, top, x0) ==
  [text |-> text, top |-> top, x0 |-> x0]

Link(uri) ==
  [Subtype |-> "/Link", hasA |-> TRUE, URI |-> uri]

Page(words, annots) ==
  [words |-> words, annots |-> annots, broken |-> FALSE]

TitleWords ==
  <<Word(WCertificate, 10, 5)>>

PageTitle ==
  Page(TitleWords, << >>)

PageBroken ==
  [words |-> << >>, annots |-> << >>, broken |-> TRUE]

\* a short link annotation; the text names a long URL
PageAnnotShort ==
  Page(<<Word(UrlLongUpper, 30, 5)>>, <<Link(UrlShortUpper)>>)

\* a link that does not qualify in front of two that do; the text names a
\* short URL
PageAnnotLong ==
  Page(<<Word(UrlShort, 30, 5)>>,
       <<Link(UrlForeign), Link(UrlLongMixed), Link(UrlShort)>>)

\* only annotations that do not qualify; the text names a long URL
PageAnnotsSkipped ==
  Page(<<Word(WSee, 10, 5), Word(UrlLongUpper, 12, 40)>>,
       <<[Subtype |-> "/Text", hasA |-> TRUE, URI |-> UrlShort],
         [Subtype |-> "/Link", hasA |-> FALSE, URI |-> None],
         Link(None), Link(EmptyStr), Link(UrlForeignLong)>>)

PageAnnotWithGo ==
  Page(<< >>, <<Link(UrlLongWithGo)>>)

PageAnnotProfile ==
  Page(<< >>, <<Link(UrlProfile)>>)

\* the line "Verify: <short URL> at", its words out of reading order, under
\* a line of short URLs whose code is too long or runs into "_"
PageTextShort ==
  Page(<<Word(UrlShort, 20, 60), Word(WVerify, 20, 5), Word(WAt, 22, 40),
         Word(WShortUnderscore, 10, 60), Word(WShortLong, 12, 5)>>, << >>)

\* the long URL on the line above the short one
PageTextLongShort ==
  Page(<<Word(UrlLongMixed, 10, 5), Word(WSee, 30, 5), Word(WShortDot, 30, 40)>>,
       << >>)

\* a long URL whose identifier is one digit short, and a short URL whose
\* code is too short
PageTextLongBadGuid ==
  Page(<<Word(WShortTiny, 5, 5), Word(UrlLongShortGuid, 10, 5)>>, << >>)

Pages ==
  {PageTitle, PageBroken, PageAnnotShort, PageAnnotLong, PageAnnotsSkipped,
   PageAnnotWithGo, PageAnnotProfile, PageTextShort, PageTextLongShort,
   PageTextLongBadGuid}

\* most pages of a document
MaxPages ==
  2

Documents ==
  UNION {[1..n -> Pages] : n \in 0..MaxPages}

\* the messages of the exceptions the PDF library raises
OpenErrors ==
  {MsgNotPdf, EmptyStr}

(***************************************************************************)
(* process_certificate_pdf_complete                                        *)
(***************************************************************************)
CallProcess ==
  /\ pc = "idle"
  /\ pdf_path' \in {None, PathCert}
  /\ op' = "process"
  /\ pc' = "p_exists"
  /\ UNCHANGED <<raised, log, extractVars, resolveVars, pdf, page_no,
                 full_text_list, full_text, found_url, long_credly_url,
                 results, verifyVars>>

\* the function returns r
ProcessReturns(r) ==
  /\ results' = r
  /\ pc' = "done"

\* lines 60-61; os.path.exists raises TypeError for None
ProcessExists ==
  /\ pc = "p_exists"
  /\ IF pdf_path = None
     THEN /\ raised' = "TypeError"
          /\ pc' = "done"
          /\ UNCHANGED results
     ELSE /\ \E exists \in BOOLEAN :
               IF ~exists
               THEN ProcessReturns(ErrorResults(ErrFileNotFound))
               ELSE pc' = "p_open" /\ UNCHANGED results
          /\ UNCHANGED raised
  /\ UNCHANGED <<op, log, extractVars, resolveVars, pdf_path, pdf, page_no,
                 full_text_list, full_text, found_url, long_credly_url,
                 verifyVars>>

\* lines 63-70: the locals are set and pdfplumber.open answers
ProcessOpen ==
  /\ pc = "p_open"
  /\ full_text_list' = << >>
  /\ found_url' = None
  /\ \/ \E e \in OpenErrors :
          /\ ProcessReturns(ErrorResults(ErrDuringProcessing \o e))
          /\ UNCHANGED <<pdf, page_no>>
     \/ \E d \in Documents :
          /\ pdf' = d
          /\ page_no' = 1
          /\ pc' = IF Len(d) = 0 THEN "p_search" ELSE "p_page"
          /\ UNCHANGED results
  /\ UNCHANGED <<op, raised, log, extractVars, resolveVars, pdf_path,
                 full_text, long_credly_url, verifyVars>>

\* lines 71-100: one pass through the body of the loop over pdf.pages
ProcessPage ==
  /\ pc = "p_page"
  /\ LET page == pdf[page_no] IN
     IF page.broken
     THEN /\ ProcessReturns(ErrorResults(ErrDuringProcessing \o MsgPage))
          /\ UNCHANGED <<page_no, full_text_list, full_text, found_url>>
     ELSE /\ full_text_list' =
               GroupLines(SortWords(page.words), << >>, << >>, full_text_list)
          /\ full_text' = join(<<"\n">>, full_text_list')
          /\ found_url' = IF ScanAnnots(page.annots) # None
                           THEN ScanAnnots(page.annots)
                           ELSE found_url
          /\ IF found_url' # None
             THEN pc' = "p_search" /\ UNCHANGED page_no
             ELSE /\ page_no' = page_no + 1
                  /\ pc' = IF page_no + 1 > Len(pdf) THEN "p_search" ELSE "p_page"
          /\ UNCHANGED results
  /\ UNCHANGED <<op, raised, log, extractVars, resolveVars, pdf_path, pdf,
                 long_credly_url, verifyVars>>

\* lines 102-109 with the two searches of line 105-106 swapped
ProcessSearchTextLongFirst ==
  /\ pc = "p_search"
  /\ long_credly_url' = None
  /\ IF found_url # None
     THEN pc' = "p_dispatch" /\ UNCHANGED <<found_url, results>>
     ELSE IF full_text = Unbound
          THEN /\ ProcessReturns(ErrorResults(ErrDuringProcessing \o MsgUnboundLocal))
               /\ UNCHANGED found_url
          ELSE /\ found_url' = IF SearchLong(full_text) # None
                               THEN SearchLong(full_text)
                               ELSE SearchShort(full_text)
               /\ pc' = "p_dispatch"
               /\ UNCHANGED results
  /\ UNCHANGED <<op, raised, log, extractVars, resolveVars, pdf_path, pdf,
                 page_no, full_text_list, full_text, verifyVars>>

\* lines 102-109; full_text is unbound when the document has no page
ProcessSearchText ==
  /\ pc = "p_search"
  /\ long_credly_url' = None
  /\ IF found_url # None
     THEN pc' = "p_dispatch" /\ UNCHANGED <<found_url, results>>
     ELSE IF full_text = Unbound
          THEN /\ ProcessReturns(ErrorResults(ErrDuringProcessing \o MsgUnboundLocal))
               /\ UNCHANGED found_url
          ELSE /\ found_url' = IF SearchShort(full_text) # None
                               THEN SearchShort(full_text)
                               ELSE SearchLong(full_text)
               /\ pc' = "p_dispatch"
               /\ UNCHANGED results
  /\ UNCHANGED <<op, raised, log, extractVars, resolveVars, pdf_path, pdf,
                 page_no, full_text_list, full_text, verifyVars>>

\* lines 111-116
ProcessDispatch ==
  /\ pc = "p_dispatch"
  /\ IF found_url # None /\ found_url # << >>
     THEN IF Contains(lower(found_url), LitGo)
          THEN /\ short_url' = found_url
               /\ max_retries' = DefaultMaxRetries
               /\ pc' = "r_check"
               /\ UNCHANGED long_credly_url
          ELSE /\ long_credly_url' =
                    IF Contains(lower(found_url), LitBadges)
                    THEN found_url ELSE long_credly_url
               /\ pc' = "p_return"
               /\ UNCHANGED <<short_url, max_retries>>
     ELSE /\ pc' = "p_return"
          /\ UNCHANGED <<short_url, max_retries, long_credly_url>>
  /\ UNCHANGED <<op, raised, log, extractVars, attempt, requests_made, sleeps,
                 pdf_path, pdf, page_no, full_text_list, full_text, found_url,
                 results, verifyVars>>

\* lines 118-125
ProcessReturn ==
  /\ pc = "p_return"
  /\ LET credly_id == IF long_credly_url # None /\ long_credly_url # << >>
                      THEN extract_credly_id_from_url(long_credly_url).val
                      ELSE None
     IN results' = [pdf_text |-> full_text, credly_id |-> credly_id,
                    final_long_url |-> long_credly_url,
                    found_url_in_pdf |-> found_url]
  /\ pc' = "done"
  /\ UNCHANGED <<op, raised, log, extractVars, resolveVars, pdf_path, pdf,
                 page_no, full_text_list, full_text, found_url,
                 long_credly_url, verifyVars>>

(***************************************************************************)
(* CredlyBadgeVerification.verify: datetime.fromisoformat and "<"          *)
(***************************************************************************)
DateTime(y, mo, d, h, mi, s, aware, offset) ==
  [t |-> "datetime", year |-> y, month |-> mo, day |-> d, hour |-> h,
   minute |-> mi, second |-> s, aware |-> aware, utcoffset |-> offset]

AllDigits(s, from, to) ==
  \A k \in from..to : IsDigit(s[k])

RECURSIVE Number(_, _, _)
Number(s, from, to) ==
  IF from > to THEN 0
  ELSE 10 * Number(s, from, to - 1) + DigitVal(s[to])

IsLeap(y) ==
  y % 4 = 0 /\ (y % 100 # 0 \/ y % 400 = 0)

DaysInMonth(y, m) ==
  IF m = 2 THEN (IF IsLeap(y) THEN 29 ELSE 28)
  ELSE IF m \in {4, 6, 9, 11} THEN 30 ELSE 31

\* s has the shape YYYY-MM-DD at index 1
DateShape(s) ==
  /\ Len(s) >= 10
  /\ AllDigits(s, 1, 4) /\ s[5] = "-" /\ AllDigits(s, 6, 7)
  /\ s[8] = "-" /\ AllDigits(s, 9, 10)

\* s has the shape HH:MM:SS at index 12, after a one-character separator
TimeShape(s) ==
  /\ Len(s) >= 19
  /\ AllDigits(s, 12, 13) /\ s[14] = ":" /\ AllDigits(s, 15, 16)
  /\ s[17] = ":" /\ AllDigits(s, 18, 19)

\* s has the shape +HH:MM or -HH:MM at index 20
OffsetShape(s) ==
  /\ Len(s) = 25
  /\ s[20] \in {"+", "-"}
  /\ AllDigits(s, 21, 22) /\ s[23] = ":" /\ AllDigits(s, 24, 25)

\* datetime.fromisoformat(v) for the forms YYYY-MM-DD, YYYY-MM-DDTHH:MM:SS
\* and YYYY-MM-DDTHH:MM:SS+HH:MM; a value that is not a str is a TypeError,
\* any other str is a ValueError (the strings of ExpiresAtValues that are
\* not of these forms are rejected by every Python 3 release)
fromisoformat(v) ==
  IF v.t # "str" THEN [exc |-> "TypeError"]
  ELSE LET s == v.s
           shaped == /\ DateShape(s)
                     /\ \/ Len(s) = 10
                        \/ Len(s) = 19 /\ TimeShape(s)
                        \/ TimeShape(s) /\ OffsetShape(s)
       IN
       IF ~shaped THEN [exc |-> "ValueError"]
       ELSE LET y == Number(s, 1, 4)
                mo == Number(s, 6, 7)
                d == Number(s, 9, 10)
                h == IF Len(s) > 10 THEN Number(s, 12, 13) ELSE 0
                mi == IF Len(s) > 10 THEN Number(s, 15, 16) ELSE 0
                sec == IF Len(s) > 10 THEN Number(s, 18, 19) ELSE 0
                aware == Len(s) = 25
                oh == IF aware THEN Number(s, 21, 22) ELSE 0
                om == IF aware THEN Number(s, 24, 25) ELSE 0
                sign == IF aware /\ s[20] = "-" THEN -1 ELSE 1
            IN
            IF /\ y >= 1 /\ mo \in 1..12 /\ d >= 1 /\ d <= DaysInMonth(y, mo)
               /\ h < 24 /\ mi < 60 /\ sec < 60 /\ oh < 24 /\ om < 60
            THEN [exc |-> NoException,
                  val |-> DateTime(y, mo, d, h, mi, sec, aware,
                                   sign * (oh * 60 + om))]
            ELSE [exc |-> "ValueError"]

\* days before the first of month m in year y
RECURSIVE DaysBeforeMonth(_, _)
DaysBeforeMonth(y, m) ==
  IF m = 1 THEN 0 ELSE DaysBeforeMonth(y, m - 1) + DaysInMonth(y, m - 1)

\* date.toordinal(): 0001-01-01 is day 1
Ordinal(y, m, d) ==
  LET p == y - 1 IN
  p * 365 + (p \div 4) - (p \div 100) + (p \div 400) + DaysBeforeMonth(y, m) + d

\* minutes from 0001-01-01T00:00 UTC to the minute of an aware datetime
UtcMinute(dt) ==
  (Ordinal(dt.year, dt.month, dt.day) * 24 + dt.hour) * 60 + dt.minute
    - dt.utcoffset

\* a < b for two datetimes: TypeError when exactly one is aware
DateTimeLess(a, b) ==
  IF a.aware # b.aware THEN [exc |-> "TypeError"]
  ELSE [exc |-> NoException,
        val |-> \/ UtcMinute(a) < UtcMinute(b)
                \/ UtcMinute(a) = UtcMinute(b) /\ a.second < b.second]

\* truth value of a JSON value
Truthy(v) ==
  CASE v.t = "None" -> FALSE
    [] v.t = "absent" -> FALSE
    [] v.t = "str" -> v.s # << >>
    [] v.t = "num" -> v.n # 0
    [] OTHER -> TRUE

\* dict.get(key): None for a key the mapping does not have
get(v) ==
  IF v.t = "absent" THEN JNone ELSE v

(***************************************************************************)
(* CredlyBadgeVerification.verify                                          *)
(***************************************************************************)
BadgeIds ==
  {None, EmptyStr, GuidLower}

StateValues ==
  {JAbsent, JStr(LitAccepted), JStr(StExpired), JStr(StAcceptedCaps)}

ExpiresAtValues ==
  {JAbsent, JNone, JNum(0), JNum(1893456000), JStr(EmptyStr), JStr(ExpPast),
   JStr(ExpFuture), JStr(ExpFutureOffset), JStr(ExpFutureNegOffset),
   JStr(ExpDateOnly), JStr(ExpNaive), JStr(ExpDateOnlyPast),
   JStr(ExpGarbage), JStr(ExpBadDay)}

\* the value under the key 'data' of a response that is a JSON object
DataValues ==
  {JAbsent, JNone, JStr(LitAccepted), JList}
  \cup {JDict(s, e) : s \in StateValues, e \in ExpiresAtValues}

\* response bodies: text that is not JSON, JSON that is not an object,
\* and JSON objects
Bodies ==
  {[t |-> "notjson"], JList, JNone}
  \cup {[t |-> "object", data |-> d] : d \in DataValues}

\* what requests.get can do at line 26
VerifyOutcomes ==
  {[kind |-> "Timeout"], [kind |-> "ConnectionError"]}
  \cup {[kind |-> "http", status |-> s, body |-> b] :
          s \in {200, 302, 404, 500}, b \in Bodies}

\* the instants datetime.now(timezone.utc) may return
NowValues ==
  {DateTime(2026, 11, 4, 12, 0, 0, TRUE, 0),
   DateTime(2030, 1, 1, 0, 0, 0, TRUE, 0),
   DateTime(2030, 1, 1, 0, 0, 1, TRUE, 0)}

CallVerify ==
  /\ pc = "idle"
  /\ badge_id' \in BadgeIds
  /\ op' = "verify"
  /\ pc' = "v_check"
  /\ UNCHANGED <<raised, log, extractVars, resolveVars, processVars,
                 response, badge_data, now_utc, verified_content>>

\* verify prints msg and returns None
VerifyFails(msg) ==
  /\ log' = Append(log, msg)
  /\ verified_content' = JNone
  /\ pc' = "done"

\* lines 19-23
VerifyCheckId ==
  /\ pc = "v_check"
  /\ IF badge_id = None \/ badge_id = << >>
     THEN VerifyFails([msg |-> "Badge ID cannot be empty"])
     ELSE pc' = "v_request" /\ UNCHANGED <<log, verified_content>>
  /\ UNCHANGED <<op, raised, extractVars, resolveVars, processVars, badge_id,
                 response, badge_data, now_utc>>

\* lines 25-37; a body that is not JSON raises an exception that, by the
\* release of requests, the first or the second except clause catches
VerifyRequest ==
  /\ pc = "v_request"
  /\ \E o \in VerifyOutcomes :
       /\ response' = o
       /\ IF o.kind # "http"
          THEN /\ VerifyFails([msg |-> "API request failed", class |-> o.kind])
               /\ UNCHANGED <<raised, badge_data>>
          ELSE IF o.status = 404
          THEN /\ VerifyFails([msg |-> "not found (404)", id |-> badge_id])
               /\ UNCHANGED <<raised, badge_data>>
          ELSE IF raise_for_status(o.status)
          THEN /\ VerifyFails([msg |-> "API request failed", class |-> "HTTPError"])
               /\ UNCHANGED <<raised, badge_data>>
          ELSE IF o.body.t = "notjson"
          THEN /\ \/ VerifyFails([msg |-> "API request failed",
                                  class |-> "JSONDecodeError"])
                  \/ VerifyFails([msg |-> "Failed to parse JSON response"])
               /\ UNCHANGED <<raised, badge_data>>
          ELSE IF o.body.t # "object"
          THEN /\ raised' = "AttributeError"
               /\ pc' = "done"
               /\ UNCHANGED <<log, verified_content, badge_data>>
          ELSE /\ badge_data' = IF o.body.data.t = "absent"
                                THEN JDict(JAbsent, JAbsent)
                                ELSE o.body.data
               /\ pc' = "v_state"
               /\ UNCHANGED <<raised, log, verified_content>>
  /\ UNCHANGED <<op, extractVars, resolveVars, processVars, badge_id, now_utc>>

\* lines 39-42
VerifyState ==
  /\ pc = "v_state"
  /\ IF badge_data.t # "dict"
     THEN /\ raised' = "AttributeError"
          /\ pc' = "done"
          /\ UNCHANGED <<log, verified_content>>
     ELSE /\ LET state == get(badge_data.state) IN
             IF state # JStr(LitAccepted)
             THEN VerifyFails([msg |-> "Badge state is not accepted",
                               state |-> state])
             ELSE pc' = "v_expiry" /\ UNCHANGED <<log, verified_content>>
          /\ UNCHANGED raised
  /\ UNCHANGED <<op, extractVars, resolveVars, processVars, badge_id,
                 response, badge_data, now_utc>>

\* the return of line 57
VerifySucceeds ==
  /\ log' = Append(log, [msg |-> "technically valid", id |-> badge_id])
  /\ verified_content' = badge_data
  /\ pc' = "done"

\* lines 44-57
VerifyExpiry ==
  /\ pc = "v_expiry"
  /\ LET expires_at_str == get(badge_data.expires_at)
         parsed == fromisoformat(expires_at_str)
         unparseable == [msg |-> "Could not parse expiration date",
                         raw |-> expires_at_str]
     IN
     IF ~Truthy(expires_at_str)
     THEN VerifySucceeds /\ UNCHANGED now_utc
     ELSE IF parsed.exc # NoException
     THEN VerifyFails(unparseable) /\ UNCHANGED now_utc
     ELSE \E now \in NowValues :
            /\ now_utc' = now
            /\ LET expiration_date == parsed.val
                   less == DateTimeLess(expiration_date, now)
               IN
               IF less.exc # NoException
               THEN VerifyFails(unparseable)
               ELSE IF less.val
               THEN VerifyFails([msg |-> "Badge expired on",
                                 date |-> <<expiration_date.year,
                                            expiration_date.month,
                                            expiration_date.day>>])
               ELSE VerifySucceeds
  /\ UNCHANGED <<op, raised, extractVars, resolveVars, processVars, badge_id,
                 response, badge_data>>

Next ==
  \/ CallExtract
  \/ CallResolve
  \/ ResolveCheck
  \/ ResolveAttempt
  \/ ResolveBackoff
  \/ ResolveExhausted
  \/ CallProcess
  \/ ProcessExists
  \/ ProcessOpen
  \/ ProcessPage
  \/ ProcessSearchText
  \/ ProcessDispatch
  \/ ProcessReturn
  \/ CallVerify
  \/ VerifyCheckId
  \/ VerifyRequest
  \/ VerifyState
  \/ VerifyExpiry

Spec ==
  Init /\ [][Next]_vars

(***************************************************************************)
(* Properties                                                              *)
(***************************************************************************)
VerifyDone ==
  op = "verify" /\ pc = "done"

ProcessDone ==
  op = "process" /\ pc = "done"

\* a datetime without offset read as UTC
AsUtc(dt) ==
  IF dt.aware THEN dt ELSE [dt EXCEPT !.aware = TRUE, !.utcoffset = 0]

\* the record's expires_at is a str that parses, to an instant that is not
\* earlier than now
NotYetExpired(data, now) ==
  /\ get(data.expires_at).t = "str"
  /\ fromisoformat(get(data.expires_at)).exc = NoException
  /\ now.t = "datetime"
  /\ ~DateTimeLess(AsUtc(fromisoformat(get(data.expires_at)).val), now).val

\* the response is a 2xx answer whose body is an object with a record
\* under 'data'
AnsweredWithRecord ==
  /\ response.kind = "http"
  /\ response.status \in 200..299
  /\ response.body.t = "object"
  /\ response.body.data.t = "dict"

\* C1: an accepted record of a 2xx answer whose expires_at parses, with or
\* without offset, to an instant not earlier than now is returned by verify.
C1_NotExpiredIsValid ==
  (/\ VerifyDone
   /\ AnsweredWithRecord
   /\ get(response.body.data.state) = JStr(LitAccepted)
   /\ NotYetExpired(response.body.data, now_utc))
  => /\ raised = NoException
     /\ verified_content = response.body.data

\* every request of the call timed out
OnlyTimeouts ==
  /\ Len(log) = requests_made + 1
  /\ \A k \in 2..Len(log) : log[k].msg = "Request timed out"

ResolveDoneAfterTimeouts ==
  /\ op = "resolve"
  /\ pc = "done"
  /\ max_retries = DefaultMaxRetries
  /\ Contains(lower(short_url), LitCredlyCom)
  /\ OnlyTimeouts

\* C2 as stated: with max_retries = 3 and only timeouts the resolver returns
\* None after exactly 3 requests and waits of 1, 2 and 4.
C2_WaitsOneTwoFour ==
  ResolveDoneAfterTimeouts
  => /\ ret = None
     /\ requests_made = 3
     /\ sleeps = <<1, 2, 4>>

\* C2 amended: with max_retries = 3 and only timeouts the resolver returns
\* None after exactly 3 requests, having waited 1 after the first and 2 after
\* the second request and not at all after the third.
C2_WaitsOneTwo ==
  ResolveDoneAfterTimeouts
  => /\ ret = None
     /\ requests_made = 3
     /\ sleeps = <<1, 2>>

C2_Witness ==
  ResolveDoneAfterTimeouts /\ requests_made = 3

\* C3: verify ends Valid (the record is returned) or Invalid (None is
\* returned and a reason was printed); no exception leaves it.
C3_NoFaultEscapes ==
  VerifyDone
  => /\ raised = NoException
     /\ log # << >>
     /\ \/ verified_content = JNone
        \/ verified_content = badge_data /\ badge_data.t = "dict"

\* C4: verify returns a record only for a non-empty identifier, a 2xx answer
\* with a parseable body, state "accepted", and an expires_at that is absent
\* or parses to an instant not earlier than now.
C4_RecordOnlyIfValid ==
  (VerifyDone /\ raised = NoException /\ verified_content # JNone)
  => /\ badge_id # None /\ badge_id # << >>
     /\ response.kind = "http"
     /\ response.status \in 200..299
     /\ response.body.t = "object"
     /\ verified_content.t = "dict"
     /\ get(verified_content.state) = JStr(LitAccepted)
     /\ \/ get(verified_content.expires_at) = JNone
        \/ NotYetExpired(verified_content, now_utc)

\* the canonical shape: 8-4-4-4-12 hexadecimal digits
GuidShape(g) ==
  /\ Len(g) = 36
  /\ \A k \in 1..36 :
       IF k \in {9, 14, 19, 24} THEN g[k] = "-" ELSE IsHex(g[k])

\* url has the segment /badges/<g>/print, g in the letter case of url
HasSegment(url, g) ==
  \E i \in 1..Len(url) :
     /\ LitAt(url, i, LitBadges)
     /\ i + 7 + Len(g) <= Len(url)
     /\ SubSeq(url, i + 8, i + 7 + Len(g)) = g
     /\ LitAt(url, i + 8 + Len(g), LitPrint)

\* C5: credly_id of a result is None or a string of the canonical shape
\* that stands in a /badges/<guid>/print segment of final_long_url.
C5_IdIsCanonical ==
  (ProcessDone /\ raised = NoException)
  => \/ results.credly_id = None
     \/ /\ GuidShape(results.credly_id)
        /\ results.final_long_url # None
        /\ HasSegment(results.final_long_url, results.credly_id)

\* an identifier came out of a URL the redirect resolver returned
C5_Witness ==
  /\ ProcessDone
  /\ results.credly_id # None
  /\ requests_made > 0

\* the call ended at line 61 or line 128 instead of line 120
ProcessFailed ==
  full_text = Unbound \/ results.pdf_text # full_text

\* C6: process_certificate_pdf_complete raises nothing for any input; when
\* it fails, the result carries None in its three URL fields and a
\* non-empty diagnostic text.
C6_NeverPropagates ==
  ProcessDone
  => /\ raised = NoException
     /\ ProcessFailed
          => /\ results.pdf_text # None
             /\ results.pdf_text # << >>
             /\ results.credly_id = None
             /\ results.final_long_url = None
             /\ results.found_url_in_pdf = None

\* the host of a URL: what stands between "://" and the next "/", "?", "#"
HostOf(url) ==
  LET starts == {i \in 1..Len(url) : LitAt(url, i, LitColonSlashSlash)} IN
  IF starts = {} THEN << >>
  ELSE LET from == Min(starts) + 3
           stops == {k \in from..Len(url) : url[k] \in {"/", "?", "#"}}
           to == IF stops = {} THEN Len(url) ELSE Min(stops) - 1
       IN lower(SubSeq(url, from, to))

\* the host is credly.com or one of its subdomains
HostIsCredly(url) ==
  LET h == HostOf(url) IN
  \/ h = LitCredlyCom
  \/ /\ Len(h) > Len(LitCredlyCom)
     /\ SubSeq(h, Len(h) - Len(LitCredlyCom), Len(h)) = <<".">> \o LitCredlyCom

\* C7: for a URL whose host is not of credly.com the resolver issues no
\* request, does not wait, and returns None.
C7_ForeignHostRejected ==
  (op = "resolve" /\ pc # "r_check" /\ ~HostIsCredly(short_url))
  => /\ requests_made = 0
     /\ sleeps = << >>
     /\ pc = "done"
     /\ ret = None

\* C8: a candidate with /badges/ becomes final_long_url unchanged without
\* any request; the resolver runs only for candidates with /go/, and when
\* it returns None the result has the found URL and neither a final URL
\* nor an identifier.
C8_LongFormNeedsNoNetwork ==
  (ProcessDone /\ raised = NoException /\ results.found_url_in_pdf # None)
  => /\ Contains(lower(results.found_url_in_pdf), LitBadges)
          => /\ results.final_long_url = results.found_url_in_pdf
             /\ requests_made = 0
     /\ requests_made > 0 => Contains(lower(results.found_url_in_pdf), LitGo)
     /\ (short_url # None /\ long_credly_url = None)
          => /\ results.final_long_url = None
             /\ results.credly_id = None

\* the lines of the text of the pages, in page order
RECURSIVE LinesOfPages(_)
LinesOfPages(pages) ==
  IF pages = << >> THEN << >>
  ELSE LinesOfPages(SubSeq(pages, 1, Len(pages) - 1))
       \o GroupLines(SortWords(pages[Len(pages)].words), << >>, << >>, << >>)

TextOfPages(pages) ==
  join(<<"\n">>, LinesOfPages(pages))

\* the pages with a qualifying link annotation
AnnotatedPages ==
  {n \in 1..Len(pdf) : \E k \in 1..Len(pdf[n].annots) : Qualifies(pdf[n].annots[k])}

\* the scan of the opened document has ended without an exception
ScanEnded ==
  op = "process" /\ pc = "p_dispatch"

\* C9: the candidate is the first qualifying annotation of the first page
\* that has one, and no later page is read; without any such page it is the
\* short URL of the text of all pages, else the long URL of that text, else
\* None.
C9_OrderedFallback ==
  /\ (ProcessDone /\ raised = NoException)
       => results.found_url_in_pdf = found_url
  /\ ScanEnded
       => IF AnnotatedPages # {}
          THEN LET n == Min(AnnotatedPages)
                   k == Min({j \in 1..Len(pdf[n].annots) :
                               Qualifies(pdf[n].annots[j])})
               IN /\ found_url = pdf[n].annots[k].URI
                  /\ page_no = n
                  /\ full_text = TextOfPages(SubSeq(pdf, 1, n))
          ELSE LET text == TextOfPages(pdf) IN
               /\ full_text = text
               /\ (SearchShort(text) # None => found_url = SearchShort(text))
               /\ (SearchShort(text) = None /\ SearchLong(text) # None
                     => found_url = SearchLong(text))
               /\ (found_url = None
                     <=> SearchShort(text) = None /\ SearchLong(text) = None)

\* no annotation qualifies, the text has a long URL in front of a short
\* one, and the short one is the candidate
C9_Witness ==
  /\ ProcessDone
  /\ raised = NoException
  /\ full_text # Unbound
  /\ results.pdf_text = full_text
  /\ AnnotatedPages = {}
  /\ SearchLong(full_text) # None
  /\ SearchShort(full_text) # None
  /\ results.found_url_in_pdf = SearchShort(full_text)

\* C10: extract_credly_id_from_url raises nothing; it returns the GUID of
\* the first /badges/<guid>/print segment in the letter case of the URL, and
\* None for None and for a URL without such a segment.
C10_ExtractIsTotal ==
  (op = "extract" /\ pc = "done")
  => /\ raised = NoException
     /\ credly_url # None =>
          /\ ret # None => GuidShape(ret) /\ HasSegment(credly_url, ret)
          /\ ret = None =>
               ~\E i \in 1..Len(credly_url) :
                   /\ i + 43 <= Len(credly_url)
                   /\ GuidShape(SubSeq(credly_url, i + 8, i + 43))
                   /\ HasSegment(credly_url, SubSeq(credly_url, i + 8, i + 43))
     /\ credly_url = None => ret = None

====
